---- MODULE Spec2Model ----
(***************************************************************************)
(* A model of pghq/go-datastore:                                           *)
(*   - placeholder.ReplacePlaceholders   (database/driver/sql.go)          *)
(*   - NewSQL / applyMigration           (database/driver/sql.go)          *)
(*   - Txn.List                          (the ark transaction)             *)
(* Strings are sequences of one-character strings.                         *)
(***************************************************************************)
EXTENDS Integers, Sequences, FiniteSets, TLC

VARIABLES
    \* ---- placeholder.ReplacePlaceholders
    ph,          \* the receiver: the dialect token
    phIn,        \* the argument sql
    phOut,       \* the returned string
    phErr,       \* the returned error
    phPc         \* "call" before the call, "done" after it

VARIABLES
    \* ---- NewSQL
    nsPc,        \* "start", "migrating" (inside applyMigration), "returned"
    sqlRet,      \* the *SQL returned: "none" (not yet), "db", "nil"
    nsErr,       \* the error returned: "nil" or its message
    migConfigured, \* config.MigrationFS != nil && config.MigrationDirectory != ""
    txns,        \* transactions begun on the returned backend
    \* ---- the migration source and the database (goose's side)
    migFiles,    \* versions of the <digits>_<name>.sql files of migrationDirectory
    seedDirs,    \* versions of the numbered subdirectories of seedDirectory
    seedDirSet,  \* seedDirectory != ""
    dbApplied,   \* migration versions recorded as applied in the version table
    dbApplied0,  \* dbApplied when applyMigration was entered
    seedData,    \* seeds whose data is in the database
    \* ---- applyMigration
    mpc,         \* "idle", "loop", "seed", "final", "rollback", "returned"
    localhost,   \* the parameter localhost
    maxMigrationVersion,
    seeds,       \* the keys of the map seeds
    minSeedVersion,
    max,
    version,     \* goose.GetDBVersion's result, its error dropped
    i,           \* the loop counter
    err,         \* "nil", "noNext" (goose.ErrNoNextVersion), "fail" (any other)
    mRet,        \* applyMigration's result: "none", "nil", "err"
    calls,       \* the goose calls made, in order, each with what it applied
    seedDowns    \* the seeds goose.Down was called on

VARIABLES
    \* ---- Txn.List
    txErr,       \* tx.err: "nil" or the recorded error
    cache,       \* tx.cache: query fingerprint -> cached value, NoValue when absent
    views,       \* tx.views, the buffered channel of pending views
    heap,        \* the destinations callers pass as v: destination -> its content
    backendCalls, \* calls of tx.backend.List made so far
    nLists,      \* calls of Txn.List made so far
    last         \* the last call of Txn.List: its key, destination and result

VARIABLES
    \* ---- concurrent calls of Txn.List on one transaction
    cpc,         \* per goroutine: "idle", "backend", "select", "returned"
    ckey,        \* per goroutine: the fingerprint of its call
    cdest,       \* per goroutine: the destination v of its call
    cret         \* per goroutine: what its last call returned

VARIABLES
    \* ---- pgTxn.Get, pgTxn.List, pgTxn.Exec
    pgCond,      \* per operation: what the driver reported in its last call
    pgRet,       \* per operation: the error its last call returned
    pgN          \* operations made so far

phVars == <<ph, phIn, phOut, phErr, phPc>>

nsVars == <<nsPc, sqlRet, nsErr, migConfigured, txns>>

srcVars == <<migFiles, seedDirs, seedDirSet>>

dbVars == <<dbApplied, dbApplied0, seedData>>

amVars == <<mpc, localhost, maxMigrationVersion, seeds, minSeedVersion, max,
            version, i, err, mRet, calls, seedDowns>>

migVars == <<nsVars, srcVars, dbVars, amVars>>

concVars == <<cpc, ckey, cdest, cret>>

pgVars == <<pgCond, pgRet, pgN>>

txnVars == <<txErr, cache, views, heap, backendCalls, nLists, last, concVars, pgVars>>

vars == <<phVars, migVars, txnVars>>

-----------------------------------------------------------------------------
(* Bounds of the model *)

\* longest enumerated input of ReplacePlaceholders
MaxLen == 4

\* largest migration version and largest seed version in the directories
MaxVersion == 3

\* transactions begun on one backend
MaxTxns == 2

\* capacity of the pending-view channel of a transaction
ViewCap == 2

\* calls of Txn.List on one transaction
MaxLists == 4

\* operations made on one pgTxn
MaxOps == 3

-----------------------------------------------------------------------------
(* Small helpers *)

Max(a, b) == IF a > b THEN a ELSE b

SetMax(S) == CHOOSE x \in S : \A y \in S : y <= x

SetMin(S) == CHOOSE x \in S : \A y \in S : x <= y

\* all sequences over S of length at most n
SeqsUpTo(S, n) == UNION {[1..k -> S] : k \in 0..n}

\* the state of ReplacePlaceholders when it is not the subject
IdlePH ==
    /\ ph = <<>>
    /\ phIn = <<>>
    /\ phOut = <<>>
    /\ phErr = "nil"
    /\ phPc = "idle"

\* query fingerprints, cached or returned values, destinations
Keys == {"k1", "k2"}

Values == {"v1", "v2"}

Dests == {"d1", "d2"}

\* no cached value / an untouched destination
NoValue == "none"

\* goroutines calling Txn.List on the same transaction
Callers == {"g1", "g2"}

\* operations of pgTxn
PgOps == {"Get", "List", "Exec"}

\* no goroutine is in Txn.List
IdleConc ==
    /\ cpc = [c \in Callers |-> "idle"]
    /\ ckey = [c \in Callers |-> "none"]
    /\ cdest = [c \in Callers |-> "none"]
    /\ cret = [c \in Callers |-> "none"]

\* no operation of pgTxn has been made
IdlePg ==
    /\ pgCond = [o \in PgOps |-> "none"]
    /\ pgRet = [o \in PgOps |-> [kind |-> "none", msg |-> "none"]]
    /\ pgN = 0

\* the state of the transaction when it is not the subject
IdleTxn ==
    /\ IdleConc
    /\ IdlePg
    /\ txErr = "nil"
    /\ cache = [k \in Keys |-> NoValue]
    /\ views = <<>>
    /\ heap = [d \in Dests |-> NoValue]
    /\ backendCalls = 0
    /\ nLists = 0
    /\ last = [key |-> "none", dest |-> "none", ret |-> "none"]

-----------------------------------------------------------------------------
(* goose, as applyMigration uses it.  Every call ends in one of three ways,
   the three the code tells apart: "nil", "noNext" (goose.ErrNoNextVersion)
   and "fail" (any other error). *)

\* the elements of a set of integers in increasing order
RECURSIVE SortedSeq(_)
SortedSeq(S) == IF S = {} THEN <<>> ELSE <<SetMin(S)>> \o SortedSeq(S \ {SetMin(S)})

\* the set of elements of a sequence
Range(s) == {s[k] : k \in 1..Len(s)}

\* the version goose reads from the version table
DBVersion(applied) == IF applied = {} THEN 0 ELSE SetMax(applied)

\* the migrations goose.UpTo(db, migrationDirectory, target) has left to apply
Pending(applied, target) == {m \in migFiles : m > DBVersion(applied) /\ m <= target}

\* goose.UpTo / goose.Up on the migration directory: each pending migration
\* is applied in its own transaction, in version order; a failing one stops the
\* call with the earlier ones applied.  With nothing pending the call reports
\* nil or ErrNoNextVersion.
UpOutcomes(applied, target) ==
    LET pend == Pending(applied, target) IN
    {[res |-> "nil", applied |-> SortedSeq(pend)]}
    \cup {[res |-> "fail", applied |-> SortedSeq({m \in pend : m < k})] : k \in pend}
    \cup (IF pend = {}
          THEN {[res |-> "noNext", applied |-> <<>>], [res |-> "fail", applied |-> <<>>]}
          ELSE {})

\* goose.Up(db, seed, WithNoVersioning, WithAllowMissing) on one seed directory
SeedOutcomes(v) ==
    {[res |-> "nil", applied |-> <<v>>],
     [res |-> "noNext", applied |-> <<>>],
     [res |-> "fail", applied |-> <<>>]}

\* goose.Down(db, migrationDirectory): rolls back the one migration at the
\* recorded version, or fails and changes nothing
DownOutcomes(applied) ==
    {[res |-> "fail", applied |-> <<>>]}
    \cup (IF DBVersion(applied) \in migFiles /\ DBVersion(applied) \in applied
          THEN {[res |-> "nil", applied |-> <<DBVersion(applied)>>]}
          ELSE {})

\* goose.GetDBVersion: the recorded version, or -1 with an error
GetDBVersionOutcomes(applied) == {DBVersion(applied), -1}

-----------------------------------------------------------------------------
(* NewSQL and applyMigration *)

Dialects == {"postgres", "redshift", "mysql"}

\* "localhost"
HostLocalhost == <<"l", "o", "c", "a", "l", "h", "o", "s", "t">>

\* "host.docker.internal"
HostDocker == <<"h", "o", "s", "t", ".", "d", "o", "c", "k", "e", "r", ".",
                "i", "n", "t", "e", "r", "n", "a", "l">>

\* "db"
HostDb == <<"d", "b">>

\* hosts of the database URL: the three local names, two of them with a port,
\* and "dbx", "x.io:5", "x:db", ":db", ""
Hosts == {HostLocalhost, HostLocalhost \o <<":", "5">>, HostDocker, HostDb,
          HostDb \o <<":", "5">>, <<"d", "b", "x">>, <<"x", ".", "i", "o", ":", "5">>,
          <<"x", ":", "d", "b">>, <<":", "d", "b">>, <<>>}

\* strings.Split(host, ":")[0]: the part before the first ":"
FirstField(host) ==
    IF \E k \in 1..Len(host) : host[k] = ":"
    THEN SubSeq(host, 1, (CHOOSE k \in 1..Len(host) :
                            host[k] = ":" /\ \A j \in 1..(k - 1) : host[j] # ":") - 1)
    ELSE host

\* the host without its port is one of the three local names
isLocalhost(host) ==
    LET name == FirstField(host) IN
    name = HostLocalhost \/ name = HostDocker \/ name = HostDb

\* the state of NewSQL and applyMigration when they are not the subject
IdleMig ==
    /\ nsPc = "idle"
    /\ sqlRet = "none"
    /\ nsErr = "nil"
    /\ migConfigured = FALSE
    /\ txns = 0
    /\ migFiles = {}
    /\ seedDirs = {}
    /\ seedDirSet = FALSE
    /\ dbApplied = {}
    /\ dbApplied0 = {}
    /\ seedData = {}
    /\ mpc = "idle"
    /\ localhost = FALSE
    /\ maxMigrationVersion = 0
    /\ seeds = {}
    /\ minSeedVersion = -1
    /\ max = 0
    /\ version = 0
    /\ i = 0
    /\ err = "nil"
    /\ mRet = "none"
    /\ calls = <<>>
    /\ seedDowns = {}

InitMig ==
    /\ nsPc = "start"
    /\ sqlRet = "none"
    /\ nsErr = "nil"
    /\ migConfigured = FALSE
    /\ txns = 0
    /\ migFiles \in SUBSET (1..MaxVersion)
    /\ seedDirSet \in BOOLEAN
    /\ seedDirs \in (IF seedDirSet THEN SUBSET (1..MaxVersion) ELSE {{}})
    /\ \E v0 \in migFiles \cup {0} : dbApplied = {m \in migFiles : m <= v0}
    /\ dbApplied0 = dbApplied
    /\ seedData = {}
    /\ mpc = "idle"
    /\ localhost = FALSE
    /\ maxMigrationVersion = 0
    /\ seeds = {}
    /\ minSeedVersion = -1
    /\ max = 0
    /\ version = 0
    /\ i = 0
    /\ err = "nil"
    /\ mRet = "none"
    /\ calls = <<>>
    /\ seedDowns = {}
    /\ IdlePH
    /\ IdleTxn

\* a slip: no error stops the loop or fails the run
IsFailureNever(e) == FALSE

\* a slip: ErrNoNextVersion is treated as a failure
IsFailureAnyError(e) == e # "nil"

\* lines 120, 126 and 137: err != nil && err != goose.ErrNoNextVersion
IsFailure(e) == e # "nil" /\ e # "noNext"

\* a slip: the loop is entered on every host
EntersLoopOnAnyHost(isLocal, steps) == 0 < steps

\* lines 118-119: if localhost { for i := 0; i < max; ... }, at i = 0
EntersLoop(isLocal, steps) == isLocal /\ 0 < steps

\* a slip: the seed is paired with the migration of the same version
SeedVersionAbsolute(idx) == idx + 1

\* line 124: seedVersion := i + minSeedVersion
SeedVersion(idx) == idx + minSeedVersion

\* lines 75-116 of applyMigration: the two directory scans, max and version
ScanDirectories(isLocal) ==
    LET maxMig == IF migFiles = {} THEN 0 ELSE SetMax(migFiles)
        found == IF isLocal /\ seedDirSet THEN seedDirs ELSE {}
    IN
    /\ localhost' = isLocal
    /\ maxMigrationVersion' = maxMig
    /\ seeds' = found
    /\ minSeedVersion' = IF found = {} THEN -1 ELSE SetMin(found)
    /\ max' = Max(maxMig, Cardinality(found))
    /\ version' \in GetDBVersionOutcomes(dbApplied)
    /\ i' = 0
    /\ err' = "nil"
    /\ mpc' = IF EntersLoop(isLocal, Max(maxMig, Cardinality(found)))
              THEN "loop" ELSE "final"
    /\ dbApplied0' = dbApplied
    /\ UNCHANGED <<mRet, calls, seedDowns>>

\* a return of NewSQL: return r, e
NewSQLDone(r, e) ==
    /\ nsPc' = "returned"
    /\ sqlRet' = r
    /\ nsErr' = e

\* NewSQL up to the call of applyMigration
NewSQLCall ==
    /\ nsPc = "start"
    /\ \E dialect \in Dialects, host \in Hosts, openOk \in BOOLEAN, cfg \in BOOLEAN :
        /\ migConfigured' = cfg
        /\ IF dialect \notin {"postgres", "redshift"}
           THEN /\ NewSQLDone("nil", "unrecognized dialect")
                /\ UNCHANGED <<dbVars, amVars>>
           ELSE IF ~openOk
           THEN /\ NewSQLDone("nil", "connect failed")
                /\ UNCHANGED <<dbVars, amVars>>
           ELSE IF cfg
           THEN /\ nsPc' = "migrating"
                /\ ScanDirectories(isLocalhost(host))
                /\ UNCHANGED <<sqlRet, nsErr, dbApplied, seedData>>
           ELSE /\ NewSQLDone("db", "nil")
                /\ UNCHANGED <<dbVars, amVars>>
    /\ UNCHANGED <<txns, srcVars, phVars, txnVars>>

\* where the loop goes after the body of iteration i ended without a break
NextIteration == IF i + 1 < max THEN "loop" ELSE "final"

\* line 120: goose.UpTo(db, migrationDirectory, i+1), and the test of line 125
LoopUpTo ==
    /\ mpc = "loop"
    /\ \E o \in UpOutcomes(dbApplied, i + 1) :
        /\ calls' = Append(calls, [op |-> "UpTo", arg |-> i + 1, res |-> o.res,
                                   applied |-> o.applied])
        /\ dbApplied' = dbApplied \cup Range(o.applied)
        /\ err' = o.res
        /\ IF IsFailure(o.res)
           THEN mpc' = "final" /\ i' = i
           ELSE IF SeedVersion(i) \in seeds /\ SeedVersion(i) > version
           THEN mpc' = "seed" /\ i' = i
           ELSE mpc' = NextIteration /\ i' = i + 1
    /\ UNCHANGED <<nsVars, srcVars, dbApplied0, seedData, localhost,
                   maxMigrationVersion, seeds, minSeedVersion, max, version, mRet,
                   seedDowns, phVars, txnVars>>

\* line 126: goose.Up on the seed directory of version i + minSeedVersion
LoopSeed ==
    /\ mpc = "seed"
    /\ \E o \in SeedOutcomes(SeedVersion(i)) :
        /\ calls' = Append(calls, [op |-> "SeedUp", arg |-> SeedVersion(i),
                                   res |-> o.res, applied |-> o.applied])
        /\ seedData' = seedData \cup Range(o.applied)
        /\ err' = o.res
        /\ IF IsFailure(o.res)
           THEN mpc' = "final" /\ i' = i
           ELSE mpc' = NextIteration /\ i' = i + 1
    /\ UNCHANGED <<nsVars, srcVars, dbApplied, dbApplied0, localhost,
                   maxMigrationVersion, seeds, minSeedVersion, max, version, mRet,
                   seedDowns, phVars, txnVars>>

\* a slip: the catch-all is left out
RunsCatchAllNever(e) == FALSE

\* a slip: the catch-all runs whatever err holds
RunsCatchAllAlways(e) == TRUE

\* line 133: if err == nil
RunsCatchAll(e) == e = "nil"

\* lines 133-135: the final goose.Up(db, migrationDirectory), then line 137
FinalUp ==
    /\ mpc = "final"
    /\ RunsCatchAll(err)
    /\ \E o \in UpOutcomes(dbApplied, MaxVersion) :
        /\ calls' = Append(calls, [op |-> "Up", arg |-> 0, res |-> o.res,
                                   applied |-> o.applied])
        /\ dbApplied' = dbApplied \cup Range(o.applied)
        /\ err' = o.res
        /\ IF IsFailure(o.res)
           THEN mpc' = "rollback" /\ mRet' = mRet
           ELSE mpc' = "returned" /\ mRet' = "nil"
    /\ UNCHANGED <<nsVars, srcVars, dbApplied0, seedData, localhost,
                   maxMigrationVersion, seeds, minSeedVersion, max, version, i,
                   seedDowns, phVars, txnVars>>

\* line 133 when err is not nil: no catch-all, then line 137
SkipFinalUp ==
    /\ mpc = "final"
    /\ ~RunsCatchAll(err)
    /\ IF IsFailure(err)
       THEN mpc' = "rollback" /\ mRet' = mRet
       ELSE mpc' = "returned" /\ mRet' = "nil"
    /\ UNCHANGED <<nsVars, srcVars, dbVars, localhost, maxMigrationVersion, seeds,
                   minSeedVersion, max, version, i, err, calls, seedDowns, phVars, txnVars>>

\* lines 138-142: one goose.Down on the migration directory, one on every
\* seed of the map, their errors dropped, then the error is returned
Rollback ==
    /\ mpc = "rollback"
    /\ \E o \in DownOutcomes(dbApplied), undone \in SUBSET (seedData \cap seeds) :
        /\ calls' = Append(calls, [op |-> "Down", arg |-> 0, res |-> o.res,
                                   applied |-> o.applied])
        /\ dbApplied' = dbApplied \ Range(o.applied)
        /\ seedData' = seedData \ undone
    /\ seedDowns' = seeds
    /\ mRet' = "err"
    /\ mpc' = "returned"
    /\ UNCHANGED <<nsVars, srcVars, dbApplied0, localhost, maxMigrationVersion, seeds,
                   minSeedVersion, max, version, i, err, phVars, txnVars>>

\* a slip: the backend is returned although applyMigration failed
NewSQLResultIgnoringError(e) == [ret |-> "db", err |-> "nil"]

\* lines 65-70 of NewSQL
NewSQLResult(e) ==
    IF e = "err" THEN [ret |-> "nil", err |-> "migration failed"]
    ELSE [ret |-> "db", err |-> "nil"]

\* NewSQL after applyMigration has returned
NewSQLReturn ==
    /\ nsPc = "migrating"
    /\ mpc = "returned"
    /\ NewSQLDone(NewSQLResult(mRet).ret, NewSQLResult(mRet).err)
    /\ UNCHANGED <<migConfigured, txns, srcVars, dbVars, amVars, phVars, txnVars>>

\* pg.Txn through the *SQL that NewSQL returned
BeginTxn ==
    /\ sqlRet = "db"
    /\ txns < MaxTxns
    /\ txns' = txns + 1
    /\ UNCHANGED <<nsPc, sqlRet, nsErr, migConfigured, srcVars, dbVars, amVars, phVars, txnVars>>

NextMig ==
    \/ NewSQLCall
    \/ LoopUpTo
    \/ LoopSeed
    \/ FinalUp
    \/ SkipFinalUp
    \/ Rollback
    \/ NewSQLReturn
    \/ BeginTxn

SpecMig == InitMig /\ [][NextMig]_vars

-----------------------------------------------------------------------------
(* Claims about NewSQL and applyMigration *)

\* the positions of calls with operation op
CallsOf(op) == {k \in 1..Len(calls) : calls[k].op = op}

\* the calls of the interleaving loop
LoopCalls == CallsOf("UpTo") \cup CallsOf("SeedUp")

\* no step of the loop has failed ("no next version" is not a failure)
NoLoopStepFailed == \A k \in LoopCalls : calls[k].res # "fail"

\* no goose call of the run has reported anything but success or "no next version"
OnlyNoNextReported ==
    \A k \in 1..Len(calls) : calls[k].op \in {"UpTo", "SeedUp", "Up"} => calls[k].res # "fail"

\* what the backend saw applied, in order: <<"mig", v>> and <<"seed", v>>
RECURSIVE Applications(_)
Applications(cs) ==
    IF cs = <<>> THEN <<>>
    ELSE LET c == Head(cs)
             kind == IF c.op = "SeedUp" THEN "seed" ELSE "mig"
         IN (IF c.op \in {"UpTo", "Up", "SeedUp"}
             THEN [k \in 1..Len(c.applied) |-> <<kind, c.applied[k]>>]
             ELSE <<>>) \o Applications(Tail(cs))

\* migration versions applied by this run
AppliedThisRun ==
    UNION {Range(calls[k].applied) : k \in CallsOf("UpTo") \cup CallsOf("Up")}

\* seeds applied by this run
SeedsThisRun == UNION {Range(calls[k].applied) : k \in CallsOf("SeedUp")}

\* C3: on a local host the loop pairs by position: the n-th step is UpTo(n),
\* and the seed of version (n-1) + minSeedVersion, when it exists and exceeds
\* the recorded version, is applied right after it and only then; a run without
\* a failed step makes max(maxMigrationVersion, count(seeds)) steps.  With
\* migrations {1,2,3}, seeds {1,2} and an empty database, the backend sees
\* migration 1, seed 1, migration 2, seed 2, migration 3, and the final
\* catch-all applies nothing.
C3_Interleaving ==
    (localhost /\ mpc # "idle") =>
        /\ \A k \in CallsOf("UpTo") :
            /\ calls[k].arg = 1 + Cardinality({j \in CallsOf("UpTo") : j < k})
            /\ calls[k].arg <= max
            /\ \A j \in CallsOf("Up") \cup CallsOf("Down") : k < j
            /\ (/\ calls[k].res # "fail"
                /\ (calls[k].arg - 1 + minSeedVersion) \in seeds
                /\ (calls[k].arg - 1 + minSeedVersion) > version)
               => IF k < Len(calls)
                  THEN /\ calls[k + 1].op = "SeedUp"
                       /\ calls[k + 1].arg = calls[k].arg - 1 + minSeedVersion
                  ELSE mpc = "seed"
        /\ \A k \in CallsOf("SeedUp") :
            /\ k > 1
            /\ calls[k - 1].op = "UpTo"
            /\ calls[k - 1].res # "fail"
            /\ calls[k].arg = calls[k - 1].arg - 1 + minSeedVersion
            /\ calls[k].arg \in seeds
            /\ calls[k].arg > version
        /\ (mpc = "returned" /\ NoLoopStepFailed) => Cardinality(CallsOf("UpTo")) = max
        /\ (/\ mpc = "returned"
            /\ migFiles = {1, 2, 3} /\ seeds = {1, 2} /\ dbApplied0 = {} /\ version = 0
            /\ \A k \in 1..Len(calls) : calls[k].res = "nil")
           => /\ Applications(calls) = << <<"mig", 1>>, <<"seed", 1>>, <<"mig", 2>>,
                                         <<"seed", 2>>, <<"mig", 3>> >>
              /\ calls[Len(calls)].op = "Up"
              /\ calls[Len(calls)].applied = <<>>

C3_Witness ==
    /\ localhost
    /\ mpc = "returned"
    /\ migFiles = {1, 2, 3} /\ seeds = {1, 2} /\ dbApplied0 = {} /\ version = 0
    /\ \A k \in 1..Len(calls) : calls[k].res = "nil"
    /\ Len(calls) = 6
    /\ calls[6].op = "Up"

\* C4: on a non-local host no seed is applied and the loop never runs: the
\* only forward operation is the one final goose.Up, whatever the directories
\* hold.
C4_NonLocalOnlyCatchAll ==
    (~localhost /\ mpc # "idle") =>
        /\ seeds = {}
        /\ seedData = {}
        /\ SeedsThisRun = {}
        /\ LoopCalls = {}
        /\ Cardinality(CallsOf("Up")) <= 1
        /\ mpc \in {"rollback", "returned"} => (CallsOf("Up") = {1})

C4_Witness ==
    /\ ~localhost
    /\ mpc = "returned"
    /\ mRet = "nil"
    /\ seedDirSet /\ seedDirs = {1, 2}
    /\ migFiles = {1, 2, 3}
    /\ dbApplied = {1, 2, 3}
    /\ CallsOf("Up") = {1}

\* C5: when a step fails with an error other than "no next version", every
\* migration and every seed applied during the run has been rolled back by the
\* time applyMigration returns the error (stated for the runs in which
\* goose.GetDBVersion and the goose.Down on the migration directory succeeded).
C5_RollsBackEverything ==
    (/\ mpc = "returned" /\ mRet = "err"
     /\ version >= 0
     /\ \A k \in CallsOf("Down") : calls[k].res = "nil")
    => /\ AppliedThisRun \cap dbApplied = {}
       /\ SeedsThisRun \cap seedData = {}

\* C6: NewSQL returns a backend only after a configured migration phase has
\* returned success; when applyMigration fails NewSQL returns no backend; a
\* transaction is begun only on a returned backend.
C6_MigrationBeforeTxn ==
    /\ txns > 0 => (sqlRet = "db" /\ nsPc = "returned")
    /\ (sqlRet = "db" /\ migConfigured) => (mpc = "returned" /\ mRet = "nil")
    /\ (nsPc = "returned" /\ mRet = "err") => (sqlRet = "nil" /\ nsErr # "nil")
    /\ nsPc # "returned" => sqlRet = "none"

C6_Witness ==
    /\ txns > 0
    /\ migConfigured
    /\ Len(calls) > 2
    /\ SeedsThisRun # {}

\* C7: when the only non-success outcomes of the migration and seed steps are
\* "no next version", applyMigration returns success and makes no goose.Down
\* call, neither on the migration directory nor on a seed.
C7_NoNextIsNotFailure ==
    OnlyNoNextReported =>
        /\ mpc # "rollback"
        /\ CallsOf("Down") = {}
        /\ seedDowns = {}
        /\ mpc = "returned" => mRet = "nil"

C7_Witness ==
    /\ mpc = "returned"
    /\ mRet = "nil"
    /\ OnlyNoNextReported
    /\ \E k \in CallsOf("UpTo") : calls[k].res = "noNext"
    /\ \E k \in CallsOf("SeedUp") : calls[k].res = "noNext"
    /\ \E k \in CallsOf("Up") : calls[k].res = "noNext"

\* C8 as stated: whenever the loop ends without a failed step, the final
\* goose.Up on the migration directory runs exactly once before the return.
C8_CatchAllAlwaysRuns ==
    (mpc = "returned" /\ NoLoopStepFailed) => Cardinality(CallsOf("Up")) = 1

\* the result of the last call of the loop, "nil" when the loop made none
LastLoopResult ==
    IF LoopCalls = {} THEN "nil" ELSE calls[SetMax(LoopCalls)].res

\* C8, amended: the final goose.Up runs exactly once, after every step of the
\* loop, when the last call the loop made returned nil (or the loop made no
\* call); when that last call reported "no next version" the catch-all is
\* skipped and applyMigration returns success; after a failed step it is
\* skipped too.
C8_CatchAllAfterNil ==
    /\ Cardinality(CallsOf("Up")) <= 1
    /\ \A u \in CallsOf("Up") : \A k \in LoopCalls : k < u
    /\ mpc \in {"rollback", "returned"} =>
        /\ LastLoopResult = "nil" => Cardinality(CallsOf("Up")) = 1
        /\ LastLoopResult = "noNext" => (CallsOf("Up") = {} /\ mRet = "nil")
        /\ LastLoopResult = "fail" => CallsOf("Up") = {}

C8_Witness ==
    /\ mpc = "returned"
    /\ NoLoopStepFailed
    /\ LoopCalls # {}
    /\ LastLoopResult = "nil"
    /\ Cardinality(CallsOf("Up")) = 1

C8_WitnessSkipped ==
    /\ mpc = "returned"
    /\ LastLoopResult = "noNext"
    /\ CallsOf("Up") = {}

\* C15: whenever applyMigration returns success, on a local host or not, every
\* migration of the directory is applied and the recorded version is the
\* largest migration version.
C15_FullConvergence ==
    (mpc = "returned" /\ mRet = "nil") =>
        /\ migFiles \subseteq dbApplied
        /\ DBVersion(dbApplied) = maxMigrationVersion

\* a non-local run brought a database at version 1 to version 3
C15_Witness ==
    /\ mpc = "returned"
    /\ mRet = "nil"
    /\ ~localhost
    /\ migFiles = {1, 3}
    /\ dbApplied0 = {1}
    /\ dbApplied = {1, 3}
    /\ Len(calls) = 1

\* C16: once a step of the loop has failed with an error other than "no next
\* version", no further migration step and no further seed is applied, the
\* final catch-all is not run, and applyMigration returns the error.
C16_StopsAtFirstFailure ==
    \A k \in LoopCalls :
        calls[k].res = "fail" =>
            /\ \A j \in (k + 1)..Len(calls) : calls[j].op = "Down"
            /\ CallsOf("Up") = {}
            /\ err = "fail"
            /\ mpc \in {"final", "rollback", "returned"}
            /\ mpc = "returned" => mRet = "err"

\* a seed failed with iterations of the loop left, and the error was returned
C16_Witness ==
    /\ mpc = "returned"
    /\ mRet = "err"
    /\ \E k \in CallsOf("SeedUp") :
        /\ calls[k].res = "fail"
        /\ calls[k].arg - minSeedVersion + 1 < max
        /\ k > 2

\* C17: a seed is applied only if its version is above the version the
\* database had recorded when the run started, and at most once in a run.
C17_SeedsAboveRecordedVersion ==
    /\ \A k \in CallsOf("SeedUp") : calls[k].arg > DBVersion(dbApplied0)
    /\ \A j, k \in CallsOf("SeedUp") : calls[j].arg = calls[k].arg => j = k

\* C20: on a local host, whenever applyMigration returns success (the recorded
\* version read, every seed call made having succeeded), every seed of the
\* directory above the recorded version has been applied, and the seeds were
\* applied in increasing order of version.
C20_EverySeedApplied ==
    (/\ localhost
     /\ mpc = "returned" /\ mRet = "nil"
     /\ version = DBVersion(dbApplied0)
     /\ \A k \in CallsOf("SeedUp") : calls[k].res = "nil")
    => /\ \A s \in seeds : s > DBVersion(dbApplied0) => s \in seedData
       /\ \A j, k \in CallsOf("SeedUp") : j < k => calls[j].arg < calls[k].arg

-----------------------------------------------------------------------------
(* Txn.List *)

\* the error Txn.List returns when the channel is full
BatchExhausted == "read batch size exhausted"

\* what tx.backend.List can do: fill the destination with a result, or fail
BackendOutcomes == Values \cup {"backend error"}

\* a slip: the recorded error is not looked at
HasErrNever(e) == FALSE

\* line 13: tx.err != nil
HasErr(e) == e # "nil"

\* a slip: the result is put into the cache at once
CacheWrittenThrough(key, val) == [cache EXCEPT ![key] = val]

\* tx.cache after a call of List: List only calls tx.cache.Get
CacheAfterList(key, val) == cache

\* a slip: the lookup never finds the key
PresentNever(key) == FALSE

\* line 18: _, present := tx.cache.Get(key)
Present(key) == cache[key] # NoValue

\* db.Copy(cv, v): the destination receives the cached value and nil is
\* returned, or the copy is refused with an error and the destination kept
Copy(cv, d) ==
    {[ret |-> "nil", heap |-> [heap EXCEPT ![d] = cv]],
     [ret |-> "copy error", heap |-> heap]}

\* a slip: the send is tried against one slot too many
HasRoomOffByOne(q) == Len(q) <= ViewCap

\* lines 26-30: the send of the select is ready when the buffer has room
\* (nothing receives from the channel while List runs)
HasRoom(q) == Len(q) < ViewCap

InitTxn ==
    /\ txErr \in {"nil", "begin failed"}
    /\ cache \in [Keys -> Values \cup {NoValue}]
    /\ views = <<>>
    /\ heap = [d \in Dests |-> NoValue]
    /\ backendCalls = 0
    /\ nLists = 0
    /\ last = [key |-> "none", dest |-> "none", ret |-> "none"]
    /\ IdleConc
    /\ IdlePg
    /\ IdlePH
    /\ IdleMig

\* Txn.List(table, v, opts...) with fingerprint key and destination d
List(key, d) ==
    /\ nLists < MaxLists
    /\ nLists' = nLists + 1
    /\ IF HasErr(txErr)
       THEN /\ last' = [key |-> key, dest |-> d, ret |-> txErr]
            /\ UNCHANGED <<views, heap, backendCalls>>
       ELSE IF Present(key)
       THEN /\ \E c \in Copy(cache[key], d) :
                /\ heap' = c.heap
                /\ last' = [key |-> key, dest |-> d, ret |-> c.ret]
            /\ UNCHANGED <<views, backendCalls>>
       ELSE \E b \in BackendOutcomes :
            /\ backendCalls' = backendCalls + 1
            /\ IF b = "backend error"
               THEN /\ last' = [key |-> key, dest |-> d, ret |-> b]
                    /\ UNCHANGED <<views, heap>>
               ELSE /\ heap' = [heap EXCEPT ![d] = b]
                    /\ IF HasRoom(views)
                       THEN /\ views' = Append(views, [Key |-> key, Value |-> d])
                            /\ last' = [key |-> key, dest |-> d, ret |-> "nil"]
                       ELSE /\ views' = views
                            /\ last' = [key |-> key, dest |-> d, ret |-> BatchExhausted]
    /\ cache' = CacheAfterList(key, heap'[d])
    /\ UNCHANGED <<txErr, concVars, pgVars, phVars, migVars>>

NextTxn == \E key \in Keys, d \in Dests : List(key, d)

SpecTxn == InitTxn /\ [][NextTxn]_vars

-----------------------------------------------------------------------------
(* Txn.List called by several goroutines on one transaction: the call is
   split where the goroutine can be descheduled, at the backend call and at
   the select. *)

InitConc ==
    /\ txErr \in {"nil", "begin failed"}
    /\ cache \in [Keys -> Values \cup {NoValue}]
    /\ views = <<>>
    /\ heap = [d \in Dests |-> NoValue]
    /\ backendCalls = 0
    /\ nLists = 0
    /\ last = [key |-> "none", dest |-> "none", ret |-> "none"]
    /\ IdleConc
    /\ IdlePg
    /\ IdlePH
    /\ IdleMig

\* a slip: a plain send, tx.views <- view, which waits for room
SelectReadyBlockingSend(q) == HasRoom(q)

\* lines 26-30: with its default case the select never waits
SelectReady(q) == TRUE

\* lines 13-22: the call up to tx.backend.List
ListEnter(c, key, d) ==
    /\ cpc[c] \in {"idle", "returned"}
    /\ nLists < MaxLists
    /\ nLists' = nLists + 1
    /\ ckey' = [ckey EXCEPT ![c] = key]
    /\ cdest' = [cdest EXCEPT ![c] = d]
    /\ IF HasErr(txErr)
       THEN /\ cret' = [cret EXCEPT ![c] = txErr]
            /\ cpc' = [cpc EXCEPT ![c] = "returned"]
            /\ heap' = heap
       ELSE IF Present(key)
       THEN /\ \E r \in Copy(cache[key], d) :
                /\ heap' = r.heap
                /\ cret' = [cret EXCEPT ![c] = r.ret]
            /\ cpc' = [cpc EXCEPT ![c] = "returned"]
       ELSE /\ cpc' = [cpc EXCEPT ![c] = "backend"]
            /\ cret' = [cret EXCEPT ![c] = "none"]
            /\ heap' = heap
    /\ UNCHANGED <<txErr, cache, views, backendCalls, last, pgVars, phVars, migVars>>

\* lines 22-24: tx.backend.List returns
ListBackend(c) ==
    /\ cpc[c] = "backend"
    /\ backendCalls' = backendCalls + 1
    /\ \E b \in BackendOutcomes :
        IF b = "backend error"
        THEN /\ cret' = [cret EXCEPT ![c] = b]
             /\ cpc' = [cpc EXCEPT ![c] = "returned"]
             /\ heap' = heap
        ELSE /\ heap' = [heap EXCEPT ![cdest[c]] = b]
             /\ cpc' = [cpc EXCEPT ![c] = "select"]
             /\ cret' = cret
    /\ UNCHANGED <<txErr, cache, views, nLists, last, ckey, cdest, pgVars, phVars, migVars>>

\* lines 26-32: the select and the return
ListSelect(c) ==
    /\ cpc[c] = "select"
    /\ SelectReady(views)
    /\ IF HasRoom(views)
       THEN /\ views' = Append(views, [Key |-> ckey[c], Value |-> cdest[c]])
            /\ cret' = [cret EXCEPT ![c] = "nil"]
       ELSE /\ views' = views
            /\ cret' = [cret EXCEPT ![c] = BatchExhausted]
    /\ cpc' = [cpc EXCEPT ![c] = "returned"]
    /\ UNCHANGED <<txErr, cache, heap, backendCalls, nLists, last, ckey, cdest,
                   pgVars, phVars, migVars>>

NextConc ==
    \E c \in Callers :
        \/ \E key \in Keys, d \in Dests : ListEnter(c, key, d)
        \/ ListBackend(c)
        \/ ListSelect(c)

\* a goroutine that can run is run in the end: the Go scheduler starves none
\* (the backend's answer is not promised)
FairConc == \A c \in Callers : WF_vars(ListSelect(c))

SpecConc == InitConc /\ [][NextConc]_vars /\ FairConc

\* C11: the enqueue never blocks: in every state of the channel, a full one
\* that nothing drains included, and under every interleaving of the calls
\* that share it, a call whose backend call has returned goes on to return,
\* with nil or with the batch-exhausted error.
C11_EnqueueNeverBlocks ==
    \A c \in Callers :
        (cpc[c] = "select") ~> (cpc[c] = "returned" /\ cret[c] \in {"nil", BatchExhausted})

\* one goroutine was refused by the full channel while the other had enqueued
C11_Witness ==
    /\ Len(views) = ViewCap
    /\ cpc["g1"] = "returned" /\ cret["g1"] = BatchExhausted
    /\ cpc["g2"] = "returned" /\ cret["g2"] = "nil"
    /\ \E k \in 1..Len(views) : views[k].Value = cdest["g2"]

-----------------------------------------------------------------------------
(* Claims about Txn.List *)

\* a step that is a call of Txn.List
ListStep == nLists' = nLists + 1

\* C9: on a transaction with no recorded error, a List whose fingerprint is
\* in the cache returns the result of copying the cached value into the
\* destination (nil with the destination holding the cached value, or the
\* copy's error), with no backend call and no view enqueued, whatever the
\* number of pending views.
C9_CacheHit ==
    [][(ListStep /\ txErr = "nil" /\ cache[last'.key] # NoValue) =>
        /\ last'.ret \in {"nil", "copy error"}
        /\ last'.ret = "nil" => heap' = [heap EXCEPT ![last'.dest] = cache[last'.key]]
        /\ backendCalls' = backendCalls
        /\ views' = views]_vars

\* a cache hit has happened with the channel full
C9_Witness ==
    /\ txErr = "nil"
    /\ nLists > ViewCap
    /\ Len(views) = ViewCap
    /\ backendCalls = ViewCap
    /\ cache[last.key] # NoValue
    /\ last.ret = "nil"
    /\ heap[last.dest] = cache[last.key]

\* C10 as stated: with the channel at capacity, the next List returns the
\* batch-exhausted error and does not contact the backend.
C10_ExhaustedWithoutBackend ==
    [][(ListStep /\ Len(views) = ViewCap) =>
        /\ last'.ret = BatchExhausted
        /\ backendCalls' = backendCalls]_vars

\* C10, amended: with no recorded error and the channel at capacity, a List
\* that misses the cache contacts the backend once and returns the
\* batch-exhausted error when the backend succeeded, with the result in the
\* destination, and the backend's error otherwise; a List that hits the
\* cache returns the copy's result without the backend; in every case the
\* channel is left as it was.
C10_ExhaustedAfterBackend ==
    [][(ListStep /\ txErr = "nil" /\ Len(views) = ViewCap) =>
        /\ views' = views
        /\ IF cache[last'.key] # NoValue
           THEN last'.ret \in {"nil", "copy error"} /\ backendCalls' = backendCalls
           ELSE /\ backendCalls' = backendCalls + 1
                /\ last'.ret \in {BatchExhausted, "backend error"}
                /\ last'.ret = BatchExhausted => heap'[last'.dest] \in Values
                /\ last'.ret = "backend error" => heap' = heap]_vars

\* the batch-exhausted error has been returned, after a backend call
C10_Witness ==
    /\ txErr = "nil"
    /\ Len(views) = ViewCap
    /\ last.ret = BatchExhausted
    /\ backendCalls = ViewCap + 1
    /\ cache[last.key] = NoValue

\* C12: on a transaction that holds an error, List returns that error and
\* does nothing else: no backend call, no write to the destination, no view
\* enqueued, the cache as it was (also when the fingerprint is cached).
C12_RecordedErrorShortCircuits ==
    [][(ListStep /\ txErr # "nil") =>
        /\ last'.ret = txErr
        /\ backendCalls' = backendCalls
        /\ heap' = heap
        /\ views' = views
        /\ cache' = cache
        /\ txErr' = txErr]_vars

\* the error came back although the fingerprint was cached
C12_Witness ==
    /\ txErr # "nil"
    /\ nLists >= 2
    /\ last.ret = txErr
    /\ cache[last.key] # NoValue
    /\ heap[last.dest] = NoValue
    /\ backendCalls = 0
    /\ views = <<>>

\* C13: after a List has failed with a backend error or the batch-exhausted
\* error, the transaction holds an error and the next List returns an error
\* without a backend call.
C13_StickyAfterFailure ==
    [][(ListStep /\ last.ret \in {"backend error", BatchExhausted}) =>
        /\ txErr # "nil"
        /\ last'.ret # "nil"
        /\ backendCalls' = backendCalls]_vars

\* the List step appends a view: no recorded error, a cache miss, a backend
\* success and room in the channel
AppendsView ==
    /\ txErr = "nil"
    /\ cache[last'.key] = NoValue
    /\ last'.ret # "backend error"
    /\ Len(views) < ViewCap

\* C18: the channel never holds more than its capacity, and a List changes
\* it in one way only: a miss with a backend success and room appends the one
\* view (fingerprint, destination holding the result) and returns nil; a hit,
\* a backend error, a full channel or a recorded error leave it unchanged.
C18_QueueBoundedAndAppendOnly ==
    [][ListStep =>
        /\ Len(views) <= ViewCap
        /\ Len(views') <= ViewCap
        /\ IF AppendsView
           THEN /\ views' = Append(views, [Key |-> last'.key, Value |-> last'.dest])
                /\ heap'[last'.dest] \in Values
                /\ last'.ret = "nil"
                /\ backendCalls' = backendCalls + 1
           ELSE views' = views]_vars

\* the channel was filled by appends, then a hit and a refused call left it
C18_Witness ==
    /\ Len(views) = ViewCap
    /\ nLists = ViewCap + 2
    /\ backendCalls = ViewCap + 1
    /\ last.ret = "nil"
    /\ cache[last.key] # NoValue
    /\ \A k \in 1..Len(views) : cache[views[k].Key] = NoValue

\* C19: no outcome of List changes the cache; a new view goes to the
\* transaction's channel only.
C19_CacheUntouched ==
    [][ListStep =>
        /\ cache' = cache
        /\ views' # views =>
            views' = Append(views, [Key |-> last'.key, Value |-> last'.dest])]_vars

\* a view was enqueued and its fingerprint is still not in the cache
C19_Witness ==
    /\ nLists = MaxLists
    /\ Len(views) = 1
    /\ cache[views[1].Key] = NoValue
    /\ heap[views[1].Value] \in Values
    /\ last.ret = "backend error"
    /\ \E k \in Keys : cache[k] # NoValue

-----------------------------------------------------------------------------
(* pgTxn.Get, pgTxn.List, pgTxn.Exec (database/driver/postgres.go).  An
   error is its kind, given by the trail constructor that made it, and its
   message; an error of the driver handed on as it is has the kind "driver". *)

NilError == [kind |-> "nil", msg |-> ""]

\* trail.NewErrorNotFound("the requested item does not exist")
ErrNotFound == [kind |-> "NotFound", msg |-> "the requested item does not exist"]

\* trail.NewErrorNoContent("there are no items matching your search criteria")
ErrNoResults ==
    [kind |-> "NoContent", msg |-> "there are no items matching your search criteria"]

\* trail.NewErrorNoContent("there was a conflict processing your request")
ErrConflict ==
    [kind |-> "NoContent", msg |-> "there was a conflict processing your request"]

\* an error of pgx, pgxscan or pgconn that is returned unmapped
DriverError(what) == [kind |-> "driver", msg |-> what]

\* what pgxscan.Get reports: a row, pgx.ErrNoRows, another error
GetConds == {"row", "no rows", "other error"}

\* what pgxscan.Select leaves: a filled destination, a nil destination
\* without error (no row matched), an error
ListConds == {"rows", "nil destination", "other error"}

\* what txx.Exec reports: success, a PgError of the integrity-constraint
\* class, a PgError of another class, an error that is no PgError
ExecConds == {"done", "integrity constraint violation", "other pg error", "other error"}

\* lines 90-96
pgGet(cond) ==
    CASE cond = "row" -> NilError
      [] cond = "no rows" -> ErrNotFound
      [] OTHER -> DriverError(cond)

\* lines 98-114
pgList(cond) ==
    CASE cond = "rows" -> NilError
      [] cond = "nil destination" -> ErrNoResults
      [] OTHER -> DriverError(cond)

\* lines 116-127
pgExec(cond) ==
    CASE cond = "done" -> NilError
      [] cond = "integrity constraint violation" -> ErrConflict
      [] OTHER -> DriverError(cond)

InitPg ==
    /\ IdlePg
    /\ txErr = "nil"
    /\ cache = [k \in Keys |-> NoValue]
    /\ views = <<>>
    /\ heap = [d \in Dests |-> NoValue]
    /\ backendCalls = 0
    /\ nLists = 0
    /\ last = [key |-> "none", dest |-> "none", ret |-> "none"]
    /\ IdleConc
    /\ IdlePH
    /\ IdleMig

\* one operation op of the transaction, the driver reporting cond
PgCall(op, cond, ret) ==
    /\ pgN < MaxOps
    /\ pgN' = pgN + 1
    /\ pgCond' = [pgCond EXCEPT ![op] = cond]
    /\ pgRet' = [pgRet EXCEPT ![op] = ret]
    /\ UNCHANGED <<txErr, cache, views, heap, backendCalls, nLists, last, concVars,
                   phVars, migVars>>

PgGet == \E cond \in GetConds : PgCall("Get", cond, pgGet(cond))

PgList == \E cond \in ListConds : PgCall("List", cond, pgList(cond))

PgExec == \E cond \in ExecConds : PgCall("Exec", cond, pgExec(cond))

NextPg == PgGet \/ PgList \/ PgExec

SpecPg == InitPg /\ [][NextPg]_vars

\* C14: a Get with no row returns NotFound, a List with an empty result
\* NoResults, an Exec that hits an integrity constraint Conflict; the three
\* are of pairwise distinct kinds, and every other error of the driver is
\* returned unmapped.
C14_ThreeDistinctKinds ==
    /\ pgCond["Get"] = "no rows" => pgRet["Get"] = ErrNotFound
    /\ pgCond["List"] = "nil destination" => pgRet["List"] = ErrNoResults
    /\ pgCond["Exec"] = "integrity constraint violation" => pgRet["Exec"] = ErrConflict
    /\ \A o \in PgOps :
        pgCond[o] \in {"other error", "other pg error"} => pgRet[o] = DriverError(pgCond[o])
    /\ \A o1, o2 \in PgOps :
        (/\ o1 # o2
         /\ pgCond[o1] \in {"no rows", "nil destination", "integrity constraint violation"}
         /\ pgCond[o2] \in {"no rows", "nil destination", "integrity constraint violation"})
        => pgRet[o1].kind # pgRet[o2].kind

-----------------------------------------------------------------------------
(* placeholder.ReplacePlaceholders *)

\* characters of the enumerated inputs
Chars == {"?", "a", "$"}

\* the dialect tokens tried: "", "?", "$", ":v" and "?p"
Tokens == {<<>>, <<"?">>, <<"$">>, <<":", "v">>, <<"?", "p">>}

\* the spec's example, "? = ? and ?? = ?"
Example ==
    <<"?", " ", "=", " ", "?", " ", "a", "n", "d", " ", "?", "?", " ", "=", " ", "?">>

\* "$1 = $2 and ? = $3"
ExampleOut ==
    <<"$", "1", " ", "=", " ", "$", "2", " ", "a", "n", "d", " ", "?", " ", "=", " ", "$", "3">>

Digit(d) == CASE d = 0 -> "0" [] d = 1 -> "1" [] d = 2 -> "2" [] d = 3 -> "3"
              [] d = 4 -> "4" [] d = 5 -> "5" [] d = 6 -> "6" [] d = 7 -> "7"
              [] d = 8 -> "8" [] d = 9 -> "9"

\* fmt's %d of a non-negative int
RECURSIVE Itoa(_)
Itoa(n) == IF n < 10 THEN <<Digit(n)>> ELSE Itoa(n \div 10) \o <<Digit(n % 10)>>

\* strings.Index(s, "?"): the 0-based index of the first "?", or -1
Index(s) ==
    IF \E k \in 1..Len(s) : s[k] = "?"
    THEN (CHOOSE k \in 1..Len(s) : s[k] = "?" /\ \A j \in 1..(k - 1) : s[j] # "?") - 1
    ELSE -1

\* s[from:], 0-based
SliceFrom(s, from) == SubSeq(s, from + 1, Len(s))

\* s[:to], 0-based
SliceTo(s, to) == SubSeq(s, 1, to)

\* a plausible slip: the length test off by one
IsEscapedOffByOne(s, p) ==
    /\ Len(SliceFrom(s, p)) > 2
    /\ SubSeq(s, p + 1, p + 2) = <<"?", "?">>

\* len(sql[p:]) > 1 && sql[p:p+2] == "??"
IsEscaped(s, p) ==
    /\ Len(SliceFrom(s, p)) > 1
    /\ SubSeq(s, p + 1, p + 2) = <<"?", "?">>

\* a plausible slip: only the empty token is passed through
IsNativeEmptyOnly(token) == token = <<>>

\* ph == "" || ph == "?"
IsNative(token) == token = <<>> \/ token = <<"?">>

\* the for loop and the final buf.WriteString(sql)
RECURSIVE ReplaceLoop(_, _, _, _)
ReplaceLoop(token, s, buf, n) ==
    LET p == Index(s) IN
    IF p = -1 THEN buf \o s
    ELSE IF IsEscaped(s, p)
         THEN ReplaceLoop(token, SliceFrom(s, p + 2), buf \o SliceTo(s, p) \o <<"?">>, n)
         ELSE ReplaceLoop(token, SliceFrom(s, p + 1),
                          buf \o SliceTo(s, p) \o token \o Itoa(n + 1), n + 1)

\* the (string, error) pair returned
ReplacePlaceholders(token, s) ==
    IF IsNative(token)
    THEN [out |-> s, err |-> "nil"]
    ELSE [out |-> ReplaceLoop(token, s, <<>>, 0), err |-> "nil"]

InitPH ==
    /\ ph \in Tokens
    /\ phIn \in SeqsUpTo(Chars, MaxLen) \cup {Example}
    /\ phOut = <<>>
    /\ phErr = "nil"
    /\ phPc = "call"
    /\ IdleMig
    /\ IdleTxn

CallReplacePlaceholders ==
    /\ phPc = "call"
    /\ LET r == ReplacePlaceholders(ph, phIn) IN
        /\ phOut' = r.out
        /\ phErr' = r.err
    /\ phPc' = "done"
    /\ UNCHANGED <<ph, phIn, migVars, txnVars>>

NextPH == CallReplacePlaceholders

SpecPH == InitPH /\ [][NextPH]_vars

-----------------------------------------------------------------------------
(* Claims about ReplacePlaceholders *)

\* The contract read left to right, one character at a time: k is the
\* position in s, n the number the next non-escaped "?" gets.
RECURSIVE Rewritten(_, _, _, _)
Rewritten(token, s, k, n) ==
    IF k > Len(s) THEN <<>>
    ELSE IF s[k] # "?" THEN <<s[k]>> \o Rewritten(token, s, k + 1, n)
    ELSE IF k < Len(s) /\ s[k + 1] = "?" THEN <<"?">> \o Rewritten(token, s, k + 2, n)
    ELSE token \o Itoa(n) \o Rewritten(token, s, k + 1, n + 1)

\* C1: for every token other than "" and "?", the result is the input with
\* each "??" (scanning left to right) replaced by one "?" and every other "?"
\* by the token and its 1-based running number, all other characters kept in
\* order; "? = ? and ?? = ?" with "$" gives "$1 = $2 and ? = $3".
C1_Rewrite ==
    (phPc = "done" /\ ~(ph = <<>> \/ ph = <<"?">>)) =>
        /\ phOut = Rewritten(ph, phIn, 1, 1)
        /\ phErr = "nil"
        /\ (phIn = Example /\ ph = <<"$">>) => phOut = ExampleOut

C1_Witness ==
    /\ phPc = "done"
    /\ ph = <<"$">>
    /\ phIn = Example
    /\ phOut = ExampleOut

\* C2: with the token "" or "?" the result is the input, whatever "?" and
\* "??" it holds, and no error is returned.
C2_Identity ==
    (phPc = "done" /\ (ph = <<>> \/ ph = <<"?">>)) => (phOut = phIn /\ phErr = "nil")

C2_Witness ==
    /\ phPc = "done"
    /\ ph = <<"?">>
    /\ phIn = <<"?", "?", "a", "?">>
    /\ phOut = phIn

====
